---- MODULE Spec2Model ----
(***************************************************************************)
(* Model of the ScarlettDevice class of scarlett.py: the session           *)
(* lifecycle (__init__ / __del__) against the USB stack, the two control   *)
(* transfer wrappers, and the named operations built on them.              *)
(*                                                                         *)
(* The USB stack and the device are the environment: every call into it    *)
(* either succeeds or raises, chosen nondeterministically; once the device *)
(* is unplugged every call raises.                                         *)
(***************************************************************************)
EXTENDS Integers, Sequences, FiniteSets, TLC

(* ----------------------------------------------------------------------- *)
(* Program constants                                                       *)
(* ----------------------------------------------------------------------- *)
ID_6I6 == \h8012
ID_8I6 == \h8002
ID_18I6 == \h8000
ID_18I8 == \h8014
ID_18I20 == \h800c

IMPEDANCE_LINE == 0
IMPEDANCE_INST == 1
PAD_OFF == 0
PAD_ON == 1
UNMUTE == 0
MUTE == 1

\* range(6) in __init__: the interface indices the constructor visits
NumInterfaces == 6
Interfaces == 0 .. (NumInterfaces - 1)

\* keys of json_file_by_id
KnownProductIds == {ID_6I6, ID_8I6, ID_18I6, ID_18I8, ID_18I20}

\* get_peak_meters: channel counts hard-coded for the 18i8
num_inp_ch == 18
num_daw_ch == 8
num_mix_ch == 8

(* ----------------------------------------------------------------------- *)
(* Bounds and input sets                                                   *)
(* ----------------------------------------------------------------------- *)
\* number of times __del__ runs on one object (explicit calls plus the
\* collector's)
MaxDel == 2

\* a product id with no entry in json_file_by_id (the 2i4)
UnknownProductId == \h800a
\* product ids of the handles a caller can pass in
ProductIdInputs == {ID_18I8, UnknownProductId}

\* the kernel-driver bindings the OS can have when the session starts
KernelInputs == [Interfaces -> BOOLEAN]

(* ----------------------------------------------------------------------- *)
(* State                                                                   *)
(* ----------------------------------------------------------------------- *)
VARIABLES
    kernel,               \* OS: interface -> kernel driver bound
    kernelAtStart,        \* history: kernel when the constructor was entered
    claimed,              \* OS: interface 0 claimed by this process
    plugged,              \* the device is still on the bus
    device,               \* self.device: "None" or "dev"
    idProduct,            \* self.device.idProduct
    previously_attached,  \* self.previously_attached
    config,               \* self.config
    pc,                   \* position of the single caller thread
    interface,            \* loop variable of __init__ (line 182)
    delIdx,               \* position of the loop of __del__ (line 218)
    initErr,              \* exception that left __init__
    delErr,               \* exception that left the last run of __del__
    alive,                \* the caller still holds a reference to the object
    delRuns,              \* number of runs of __del__ started
    detached,             \* history: interfaces detach_kernel_driver unbound
    released,             \* history: release_interface returned in this run
    checked,              \* history: interfaces __del__ asked the OS about
    attachCalls,          \* history: attach_kernel_driver calls of __del__
    lastOp,               \* the last named operation and what it did
    codec                 \* the last application of a module-level function

vars == <<kernel, kernelAtStart, claimed, plugged, device, idProduct,
          previously_attached, config, pc, interface, delIdx, initErr,
          delErr, alive, delRuns, detached, released, checked, attachCalls,
          lastOp, codec>>

usbVars == <<kernel, claimed>>
objVars == <<device, idProduct, previously_attached, config>>
histVars == <<detached, released, checked, attachCalls>>
opVars == <<lastOp>>


(* ----------------------------------------------------------------------- *)
(* The environment: calls into the USB stack                               *)
(* ----------------------------------------------------------------------- *)
\* whether a call into the USB stack returns (TRUE) or raises (FALSE);
\* a call to an unplugged device always raises
CallOutcomes == IF plugged THEN BOOLEAN ELSE {FALSE}

\* self.config before line 205 has assigned it
NoConfig ==
    [imp_switch |-> <<>>, pad_switch |-> <<>>, clk_switch |-> <<>>,
     mixer_src |-> <<>>, mixer_in |-> <<>>, mixer_out |-> <<>>,
     router_src |-> <<>>, router_dest |-> <<>>, signal_out |-> <<>>]

\* the mapping document json.load returns: a small table with the names
\* demo.py uses
MappingTable ==
    [imp_switch  |-> ("ANALOG1" :> 0 @@ "ANALOG2" :> 1),
     pad_switch  |-> ("ANALOG1" :> 0 @@ "ANALOG2" :> 1),
     clk_switch  |-> ("INTERNAL" :> 1 @@ "SPDIF" :> 2),
     mixer_src   |-> ("OFF" :> 255 @@ "ANALOG1" :> 0),
     mixer_in    |-> ("CH_01" :> 0 @@ "CH_02" :> 1),
     mixer_out   |-> ("MIX1" :> 0 @@ "MIX2" :> 1),
     router_src  |-> ("OFF" :> 255 @@ "MIX1" :> 16),
     router_dest |-> ("MONITOR_L" :> 0 @@ "PHONES1_L" :> 2),
     signal_out  |-> ("MASTER" :> 0 @@ "MONITOR" :> 1)]

\* no named operation has been invoked yet
NoOp ==
    [name |-> "none", args |-> <<>>, state |-> "new", claimed |-> FALSE,
     result |-> "none",
     sends |-> 0, recvs |-> 0, req |-> <<>>, data |-> <<>>, xfer |-> <<>>,
     decoded |-> 0]

(* ----------------------------------------------------------------------- *)
(* Initial state: the object does not exist yet                            *)
(* ----------------------------------------------------------------------- *)
SessionInit ==
    /\ kernel \in KernelInputs
    /\ kernelAtStart = kernel
    /\ claimed = FALSE
    /\ plugged = TRUE
    /\ device = "None"
    /\ idProduct = 0
    /\ previously_attached = <<>>
    /\ config = NoConfig
    /\ pc = "new"
    /\ interface = 0
    /\ delIdx = 0
    /\ initErr = "none"
    /\ delErr = "none"
    /\ alive = FALSE
    /\ delRuns = 0
    /\ detached = {}
    /\ released = FALSE
    /\ checked = {}
    /\ attachCalls = {}
    /\ lastOp = NoOp

\* no module-level function has been applied
NoCodec == [fn |-> "none", x |-> <<>>, done |-> FALSE, v |-> 0, out |-> <<>>]

Init ==
    /\ SessionInit
    /\ codec = NoCodec

(* ----------------------------------------------------------------------- *)
(* ScarlettDevice.__init__                                                 *)
(* ----------------------------------------------------------------------- *)
\* an exception leaves __init__: the caller gets the exception, not the
\* object
InitRaise(err) ==
    /\ pc' = "failed"
    /\ initErr' = err
    /\ alive' = FALSE

\* lines 169-175: auto-detection finds no device
InitNoDevice ==
    /\ pc = "new"
    /\ device' = "None"
    /\ InitRaise("ValueError")
    /\ UNCHANGED <<codec, usbVars, plugged, kernelAtStart, idProduct,
                   previously_attached, config, interface, delIdx, delErr,
                   delRuns, histVars, opVars>>

\* lines 169-181: a handle is passed in or auto-detected
InitOpen ==
    /\ pc = "new"
    /\ \E pid \in ProductIdInputs :
         /\ device' = "dev"
         /\ idProduct' = pid
    /\ previously_attached' = <<>>
    /\ interface' = 0
    /\ pc' = "detach"
    /\ UNCHANGED <<codec, usbVars, plugged, kernelAtStart, config, delIdx, initErr,
                   delErr, alive, delRuns, histVars, opVars>>

\* the loop of line 182 moves to the next interface, or leaves the loop
InitAdvance ==
    /\ interface' = interface + 1
    /\ pc' = IF interface + 1 = NumInterfaces THEN "setconf" ELSE "detach"
    /\ UNCHANGED <<initErr, alive>>

\* line 183 raises
InitActiveFails ==
    /\ pc = "detach"
    /\ InitRaise("USBError")
    /\ UNCHANGED <<codec, usbVars, plugged, kernelAtStart, objVars, interface,
                   delIdx, delErr, delRuns, histVars, opVars>>

\* a loop body that records every interface, bound or not
InitSkip_RecordsAll ==
    /\ pc = "detach"
    /\ TRUE \in CallOutcomes
    /\ ~kernel[interface]
    /\ previously_attached' = Append(previously_attached, interface)
    /\ InitAdvance
    /\ UNCHANGED <<codec, usbVars, plugged, kernelAtStart, device, idProduct, config,
                   delIdx, delErr, delRuns, histVars, opVars>>

\* line 183: no kernel driver on this interface
InitSkip ==
    /\ pc = "detach"
    /\ TRUE \in CallOutcomes
    /\ ~kernel[interface]
    /\ InitAdvance
    /\ UNCHANGED <<codec, usbVars, plugged, kernelAtStart, objVars, delIdx, delErr,
                   delRuns, histVars, opVars>>

\* lines 183-185: the interface is recorded, then detached
InitDetach ==
    /\ pc = "detach"
    /\ TRUE \in CallOutcomes
    /\ kernel[interface]
    /\ previously_attached' = Append(previously_attached, interface)
    /\ kernel' = [kernel EXCEPT ![interface] = FALSE]
    /\ detached' = detached \cup {interface}
    /\ InitAdvance
    /\ UNCHANGED <<codec, claimed, plugged, kernelAtStart, device, idProduct, config,
                   delIdx, delErr, delRuns, released, checked, attachCalls,
                   opVars>>

\* lines 183-185: the interface is recorded, then detach_kernel_driver raises
InitDetachFails ==
    /\ pc = "detach"
    /\ TRUE \in CallOutcomes
    /\ kernel[interface]
    /\ previously_attached' = Append(previously_attached, interface)
    /\ InitRaise("USBError")
    /\ UNCHANGED <<codec, usbVars, plugged, kernelAtStart, device, idProduct, config,
                   interface, delIdx, delErr, delRuns, histVars, opVars>>

\* line 188
InitSetConfiguration ==
    /\ pc = "setconf"
    /\ \E ok \in CallOutcomes :
         IF ok THEN pc' = "claim" /\ UNCHANGED <<initErr, alive>>
               ELSE InitRaise("USBError")
    /\ UNCHANGED <<codec, usbVars, plugged, kernelAtStart, objVars, interface,
                   delIdx, delErr, delRuns, histVars, opVars>>

\* line 191
InitClaim ==
    /\ pc = "claim"
    /\ \E ok \in CallOutcomes :
         IF ok THEN /\ claimed' = TRUE
                    /\ pc' = "load"
                    /\ UNCHANGED <<initErr, alive>>
               ELSE /\ InitRaise("USBError")
                    /\ UNCHANGED claimed
    /\ UNCHANGED <<codec, kernel, plugged, kernelAtStart, objVars, interface,
                   delIdx, delErr, delRuns, histVars, opVars>>

\* lines 197-205: the mapping is looked up by product id and loaded; the
\* constructor returns and the caller holds the session
InitLoadConfig ==
    /\ pc = "load"
    /\ IF idProduct \in KnownProductIds
         THEN /\ config' = MappingTable
              /\ pc' = "ready"
              /\ alive' = TRUE
              /\ UNCHANGED initErr
         ELSE /\ InitRaise("KeyError")
              /\ UNCHANGED config
    /\ UNCHANGED <<codec, usbVars, plugged, kernelAtStart, device, idProduct,
                   previously_attached, interface, delIdx, delErr, delRuns,
                   histVars, opVars>>

(* ----------------------------------------------------------------------- *)
(* ScarlettDevice.__del__                                                  *)
(* ----------------------------------------------------------------------- *)
\* an exception leaves __del__
DelRaise ==
    /\ pc' = "closed"
    /\ delErr' = "USBError"

\* __del__ is entered: by the collector once the last reference is gone
\* (also after __init__ raised), or by an explicit call of the caller, who
\* keeps the reference.  Lines 208-209.
DelEnter(explicit) ==
    /\ delRuns < MaxDel
    /\ \/ pc = "ready"
       \/ pc = "failed" /\ ~explicit
       \/ pc = "closed" /\ alive
    /\ delRuns' = delRuns + 1
    /\ alive' = explicit
    /\ delErr' = "none"
    /\ released' = FALSE
    /\ checked' = {}
    /\ attachCalls' = {}
    /\ delIdx' = 0
    /\ pc' = IF device = "None" THEN "closed" ELSE "release"
    /\ UNCHANGED <<codec, usbVars, plugged, kernelAtStart, objVars, interface,
                   initErr, detached, opVars>>

DelByCollector == DelEnter(FALSE)

DelExplicit == DelEnter(TRUE)

\* line 211
DelRelease ==
    /\ pc = "release"
    /\ \E ok \in CallOutcomes :
         IF ok THEN /\ claimed' = FALSE
                    /\ released' = TRUE
                    /\ delIdx' = 1
                    /\ pc' = IF previously_attached = <<>> THEN "closed"
                                                           ELSE "reattach"
                    /\ UNCHANGED delErr
               ELSE /\ DelRaise
                    /\ UNCHANGED <<claimed, released, delIdx>>
    /\ UNCHANGED <<codec, kernel, plugged, kernelAtStart, objVars, interface,
                   initErr, alive, delRuns, detached, checked, attachCalls,
                   opVars>>

\* a loop that stops after the first recorded interface
DelAdvance_FirstOnly ==
    /\ delIdx' = delIdx + 1
    /\ pc' = "closed"
    /\ UNCHANGED delErr

\* the loop of line 218 moves to the next recorded interface, or ends
DelAdvance ==
    /\ delIdx' = delIdx + 1
    /\ pc' = IF delIdx = Len(previously_attached) THEN "closed"
                                                  ELSE "reattach"
    /\ UNCHANGED delErr

\* line 219 raises
DelActiveFails ==
    /\ pc = "reattach"
    /\ DelRaise
    /\ UNCHANGED <<codec, usbVars, plugged, kernelAtStart, objVars, interface,
                   delIdx, initErr, alive, delRuns, histVars, opVars>>

\* line 219: the OS reports the interface attached; nothing to do
DelSkip ==
    /\ pc = "reattach"
    /\ TRUE \in CallOutcomes
    /\ kernel[previously_attached[delIdx]]
    /\ checked' = checked \cup {previously_attached[delIdx]}
    /\ DelAdvance
    /\ UNCHANGED <<codec, usbVars, plugged, kernelAtStart, objVars, interface,
                   initErr, alive, delRuns, detached, released, attachCalls,
                   opVars>>

\* what attach_kernel_driver(i) does to the OS: it binds i, and binding
\* interface 0 may bind interfaces 1 and 2 with it (comment of lines 213-217)
AttachEffect(k, i, implicit) ==
    [j \in Interfaces |->
        IF j = i \/ (implicit /\ i = 0 /\ j \in {1, 2}) THEN TRUE ELSE k[j]]

\* the record of one attach_kernel_driver call
AttachCall(i) ==
    [intf |-> i, wasActive |-> kernel[i], afterRelease |-> released]

\* a loop body that attaches without asking the OS first
DelAttach_Unconditional ==
    /\ pc = "reattach"
    /\ TRUE \in CallOutcomes
    /\ LET i == previously_attached[delIdx] IN
         /\ checked' = checked \cup {i}
         /\ attachCalls' = attachCalls \cup {AttachCall(i)}
         /\ \E implicit \in BOOLEAN :
              kernel' = AttachEffect(kernel, i, implicit)
    /\ DelAdvance
    /\ UNCHANGED <<codec, claimed, plugged, kernelAtStart, objVars, interface,
                   initErr, alive, delRuns, detached, released, opVars>>

\* lines 219-220: the OS reports the interface not attached; it is attached
DelAttach ==
    /\ pc = "reattach"
    /\ TRUE \in CallOutcomes
    /\ LET i == previously_attached[delIdx] IN
         /\ ~kernel[i]
         /\ checked' = checked \cup {i}
         /\ attachCalls' = attachCalls \cup {AttachCall(i)}
         /\ \E implicit \in BOOLEAN :
              kernel' = AttachEffect(kernel, i, implicit)
    /\ DelAdvance
    /\ UNCHANGED <<codec, claimed, plugged, kernelAtStart, objVars, interface,
                   initErr, alive, delRuns, detached, released, opVars>>

\* lines 219-220: attach_kernel_driver raises
DelAttachFails ==
    /\ pc = "reattach"
    /\ TRUE \in CallOutcomes
    /\ LET i == previously_attached[delIdx] IN
         /\ ~kernel[i]
         /\ checked' = checked \cup {i}
         /\ attachCalls' = attachCalls \cup {AttachCall(i)}
    /\ DelRaise
    /\ UNCHANGED <<codec, usbVars, plugged, kernelAtStart, objVars, interface,
                   delIdx, initErr, alive, delRuns, detached, released,
                   opVars>>

(* ----------------------------------------------------------------------- *)
(* Codec helpers                                                           *)
(* ----------------------------------------------------------------------- *)
\* struct.unpack('b', ...): a byte 0..255 read as a signed byte
SignedByte(b) == IF b >= 128 THEN b - 256 ELSE b

\* struct.unpack('2b', struct.pack('1h', v)): the two bytes of the signed
\* short v, least significant first, each read as a signed byte
PackShortSigned_BigEndian(v) ==
    <<SignedByte((v \div 256) % 256), SignedByte(v % 256)>>

\* list(struct.unpack('2b', struct.pack('1h', v))) of lines 64 and 84
PackShortSigned(v) ==
    <<SignedByte(v % 256), SignedByte((v \div 256) % 256)>>

\* _mixer_gain_to_hex, for a gain of a whole number of dB
\* Gains of the functions below are counted in units of 1/512 dB, so that
\* gain * 256.0 can fall halfway between two integers.

\* round(gain * 256.0) of lines 63 and 83 for gain = q / 512; the round of
\* Python 2 takes halves away from zero
Round256(q) ==
    IF q >= 0 THEN (q + 1) \div 2 ELSE -((1 - q) \div 2)

\* the value _mixer_gain_to_hex hands to struct.pack (lines 57-63),
\* without the lower limit
MixerGainFixed_NoFloor(q) ==
    LET g == IF q > 6 * 512 THEN 6 * 512 ELSE q
    IN  Round256(g)

\* the value _mixer_gain_to_hex hands to struct.pack (lines 57-63)
MixerGainFixed(q) ==
    LET g == IF q < -128 * 512 THEN -128 * 512
             ELSE IF q > 6 * 512 THEN 6 * 512 ELSE q
    IN  Round256(g)

\* the value _postroute_gain_to_hex hands to struct.pack (lines 77-83)
PostrouteGainFixed(q) ==
    LET g1 == IF q < -128 * 512 THEN -128 * 512 ELSE q
        g2 == IF g1 > 0 THEN 0 ELSE g1
    IN  Round256(g2)

\* _mixer_gain_to_hex (lines 47-65)
mixer_gain_to_hex(q) == PackShortSigned(MixerGainFixed(q))

\* _postroute_gain_to_hex (lines 67-85)
postroute_gain_to_hex(q) == PackShortSigned(PostrouteGainFixed(q))

\* _mixer_gain_to_hex of a gain of whole dB
MixerGainToHex(gain) == mixer_gain_to_hex(gain * 512)

\* _postroute_gain_to_hex, for a gain of a whole number of dB
\* _postroute_gain_to_hex of a gain of whole dB
PostrouteGainToHex(gain) == postroute_gain_to_hex(gain * 512)

\* _twobyte_to_db with the two bytes taken most significant first
twobyte_to_db_BigEndian(lsb, msb) ==
    LET raw_value == ((lsb % 256) * 256) + (msb % 256)
    IN  IF raw_value = 0 THEN <<1, 0, 65536>> ELSE <<0, raw_value, 65536>>

\* _twobyte_to_db (lines 88-104).  The result is <<1, 0, 65536>> for
\* float("-inf") and <<0, n, 65536>> for 20 * math.log10(n / 65536.0);
\* struct's native byte order is little-endian.
twobyte_to_db(lsb, msb) ==
    LET raw_value == (lsb % 256) + (256 * (msb % 256))
    IN  IF raw_value = 0 THEN <<1, 0, 65536>> ELSE <<0, raw_value, 65536>>

\* list(struct.unpack('4b', struct.pack('i', rate)))
RateSeq(rate) ==
    [k \in 1..4 |-> SignedByte((rate \div (256 ^ (k - 1))) % 256)]

(* ----------------------------------------------------------------------- *)
(* The environment: ctrl_transfer                                          *)
(* ----------------------------------------------------------------------- *)
\* ctrl_transfer converts the payload list to an array of unsigned bytes
\* and raises when an element does not fit
IsByteSeq(data) == \A k \in DOMAIN data : data[k] \in 0..255

\* the outcome of a ctrl_transfer call that raised (stall, I/O error, no
\* device, payload not a byte array)
TransferError == -1

\* what ctrl_transfer(0x21, ...) can do with a payload: raise, or return the
\* number of bytes the device consumed
SendOutcomes(data) ==
    IF plugged /\ IsByteSeq(data) THEN {TransferError} \cup (0 .. Len(data))
                                  ELSE {TransferError}

\* what ctrl_transfer(0xa1, ..., length) can do: raise, or return a buffer of
\* at most length bytes (represented by its length)
RecvOutcomes(length) ==
    IF plugged THEN {TransferError, length - 1, length}
               ELSE {TransferError}

(* ----------------------------------------------------------------------- *)
(* usb_ctrl_send / usb_ctrl_recv                                           *)
(* ----------------------------------------------------------------------- *)
\* usb_ctrl_send without the length assert: any transfer that returns counts
UsbCtrlSend_NoLengthCheck(outcome, data) ==
    IF outcome # TransferError THEN "ok" ELSE "ValueError"

\* usb_ctrl_send: the assert of lines 267-268 inside the bare except
UsbCtrlSend(outcome, data) ==
    IF outcome # TransferError /\ outcome = Len(data) THEN "ok"
                                                      ELSE "ValueError"

\* usb_ctrl_recv: whatever ctrl_transfer returns is returned
UsbCtrlRecv(outcome, length) ==
    IF outcome # TransferError THEN "ok" ELSE "ValueError"

(* ----------------------------------------------------------------------- *)
(* The named operations: what each one resolves and sends                  *)
(* ----------------------------------------------------------------------- *)
\* an operation that raised before usb_ctrl_send
Raises(err) == [err |-> err, req |-> <<>>, data |-> <<>>]

\* an operation that calls usb_ctrl_send(bm_request, w_value, w_index, data)
Sends(bm_request, w_value, w_index, data) ==
    [err |-> "none", req |-> <<<<\h21, bm_request, w_value, w_index>>>>,
     data |-> data]

set_impedance(channel, impedance) ==
    IF channel \notin DOMAIN config.imp_switch THEN Raises("KeyError")
    ELSE Sends(\h01, \h0900 + config.imp_switch[channel], \h0100,
               <<impedance, 0>>)

\* set_pad addressed as the comment of line 240 has it: wIndex 0x0b00,
\* wValue 0x0100+channel
set_pad_CommentAddress(channel, pad_onoff) ==
    IF channel \notin DOMAIN config.pad_switch THEN Raises("KeyError")
    ELSE Sends(\h01, \h0100 + config.pad_switch[channel], \h0b00,
               <<pad_onoff, 0>>)

set_pad(channel, pad_onoff) ==
    IF channel \notin DOMAIN config.pad_switch THEN Raises("KeyError")
    ELSE Sends(\h01, \h0b00 + config.pad_switch[channel], \h0100,
               <<pad_onoff, 0>>)

set_clock_source(src) ==
    IF src \notin DOMAIN config.clk_switch THEN Raises("KeyError")
    ELSE Sends(\h01, \h0100, \h2800, <<config.clk_switch[src]>>)

\* set_sampling_rate with the rates its docstring lists (8820 for 88200)
set_sampling_rate_DocstringRates(rate) ==
    IF rate \notin {44100, 48000, 8820, 96000} THEN Raises("ValueError")
    ELSE Sends(\h01, \h0100, \h2900, RateSeq(rate))

set_sampling_rate(rate) ==
    IF rate \notin {44100, 48000, 88200, 96000} THEN Raises("ValueError")
    ELSE Sends(\h01, \h0100, \h2900, RateSeq(rate))

save_settings_to_hardware ==
    Sends(\h03, \h005a, \h3c00, <<\ha5>>)

set_mixer_source(src, mix_in) ==
    IF src \notin DOMAIN config.mixer_src THEN Raises("KeyError")
    ELSE IF mix_in \notin DOMAIN config.mixer_in THEN Raises("KeyError")
    ELSE Sends(\h01, \h0600 + config.mixer_in[mix_in], \h3200,
               <<config.mixer_src[src], 0>>)

\* an element index that shifts the input index by two bits only
ElementIndex_ShiftTwo(mixer_in_index, mixer_out_index) ==
    (mixer_in_index * 4) + (mixer_out_index % 8)

\* element_index of set_mixer_gain (lines 449-450):
\* (mixer_in_index << 3) + (mixer_out_index & 0x07)
ElementIndex(mixer_in_index, mixer_out_index) ==
    (mixer_in_index * 8) + (mixer_out_index % 8)

\* set_mixer_gain addressed as the comment of lines 250-251 has it:
\* wValue 0x0000+element
set_mixer_gain_CommentAddress(mix_in, mix_out, gain) ==
    IF mix_in \notin DOMAIN config.mixer_in THEN Raises("KeyError")
    ELSE IF mix_out \notin DOMAIN config.mixer_out THEN Raises("KeyError")
    ELSE LET element_index == ElementIndex(config.mixer_in[mix_in],
                                           config.mixer_out[mix_out])
         IN  Sends(\h01, \h0000 + element_index, \h3c00,
                   MixerGainToHex(gain))

set_mixer_gain(mix_in, mix_out, gain) ==
    IF mix_in \notin DOMAIN config.mixer_in THEN Raises("KeyError")
    ELSE IF mix_out \notin DOMAIN config.mixer_out THEN Raises("KeyError")
    ELSE LET element_index == ElementIndex(config.mixer_in[mix_in],
                                           config.mixer_out[mix_out])
         IN  Sends(\h01, \h0100 + element_index, \h3c00,
                   MixerGainToHex(gain))

\* route_mix that checks the source only and falls back to destination 0
route_mix_DestUnchecked(src, dest) ==
    IF src \notin DOMAIN config.router_src THEN Raises("KeyError")
    ELSE Sends(\h01,
               IF dest \in DOMAIN config.router_dest
                   THEN config.router_dest[dest] ELSE 0,
               \h3300, <<config.router_src[src], 0>>)

route_mix(src, dest) ==
    IF src \notin DOMAIN config.router_src THEN Raises("KeyError")
    ELSE IF dest \notin DOMAIN config.router_dest THEN Raises("KeyError")
    ELSE Sends(\h01, config.router_dest[dest], \h3300,
               <<config.router_src[src], 0>>)

set_postroute_mute(bus, mute) ==
    IF bus \notin DOMAIN config.signal_out THEN Raises("KeyError")
    ELSE Sends(\h01, \h0100 + config.signal_out[bus], \h0a00, <<mute, 0>>)

set_postroute_gain(bus, gain) ==
    IF bus \notin DOMAIN config.signal_out THEN Raises("KeyError")
    ELSE Sends(\h01, \h0200 + config.signal_out[bus], \h0a00,
               PostrouteGainToHex(gain))

(* ----------------------------------------------------------------------- *)
(* The named operations as actions                                         *)
(* ----------------------------------------------------------------------- *)
\* names the caller passes: per namespace, names of the table and one name
\* that is not in it
ChannelNames == {"ANALOG1", "ANALOG9"}
ClockNames == {"INTERNAL", "WORDCLOCK"}
MixerSrcNames == {"OFF", "UNKNOWN_SRC"}
MixerInNames == {"CH_01", "CH_02", "CH_99"}
MixerOutNames == {"MIX1", "MIX99"}
RouterSrcNames == {"OFF", "UNKNOWN_SRC"}
RouterDestNames == {"MONITOR_L", "UNKNOWN_DEST"}
BusNames == {"MASTER", "UNKNOWN_BUS"}
\* gains in dB the caller passes (-1000 stands for float("-inf"))
Gains == {-1000, -3, 0, 7}
\* sampling rates the caller passes
Rates == {44100, 48000, 88200, 96000, 44117}

\* the caller can invoke a method: it holds the object, and no method of the
\* object is running
CanCall == alive /\ pc \in {"ready", "closed"}

\* a set/save operation that sends a second time when the first transfer
\* failed
Operate_Retry(name, args, plan) ==
    /\ CanCall
    /\ IF plan.err # "none"
         THEN lastOp' = [name |-> name, args |-> args, state |-> pc,
                         claimed |-> claimed,
                         result |-> plan.err, sends |-> 0, recvs |-> 0,
                         req |-> <<>>, data |-> <<>>, xfer |-> <<>>,
                         decoded |-> 0]
         ELSE \E o1 \in SendOutcomes(plan.data),
                 o2 \in SendOutcomes(plan.data) :
                LET first == UsbCtrlSend(o1, plan.data) IN
                lastOp' = [name |-> name, args |-> args, state |-> pc,
                           claimed |-> claimed,
                           result |-> IF first = "ok" THEN "ok"
                                      ELSE UsbCtrlSend(o2, plan.data),
                           sends |-> IF first = "ok" THEN 1 ELSE 2,
                           recvs |-> 0,
                           req |-> plan.req, data |-> plan.data,
                           xfer |-> IF first = "ok" THEN <<o1>>
                                                    ELSE <<o1, o2>>,
                           decoded |-> 0]
    /\ UNCHANGED <<codec, usbVars, plugged, kernelAtStart, objVars, pc, interface,
                   delIdx, initErr, delErr, alive, delRuns, histVars>>

\* a set/save operation runs to its end: the plan is what the method
\* resolved; if it did not raise, usb_ctrl_send makes one ctrl_transfer call
Operate(name, args, plan) ==
    /\ CanCall
    /\ IF plan.err # "none"
         THEN lastOp' = [name |-> name, args |-> args, state |-> pc,
                         claimed |-> claimed,
                         result |-> plan.err, sends |-> 0, recvs |-> 0,
                         req |-> <<>>, data |-> <<>>, xfer |-> <<>>,
                         decoded |-> 0]
         ELSE \E outcome \in SendOutcomes(plan.data) :
                lastOp' = [name |-> name, args |-> args, state |-> pc,
                           claimed |-> claimed,
                           result |-> UsbCtrlSend(outcome, plan.data),
                           sends |-> 1, recvs |-> 0,
                           req |-> plan.req, data |-> plan.data,
                           xfer |-> <<outcome>>, decoded |-> 0]
    /\ UNCHANGED <<codec, usbVars, plugged, kernelAtStart, objVars, pc, interface,
                   delIdx, initErr, delErr, alive, delRuns, histVars>>

SetImpedance ==
    \E channel \in ChannelNames, impedance \in {IMPEDANCE_LINE, IMPEDANCE_INST} :
        Operate("set_impedance", <<channel, impedance>>,
                set_impedance(channel, impedance))

SetPad ==
    \E channel \in ChannelNames, pad_onoff \in {PAD_OFF, PAD_ON} :
        Operate("set_pad", <<channel, pad_onoff>>, set_pad(channel, pad_onoff))

SetClockSource ==
    \E src \in ClockNames :
        Operate("set_clock_source", <<src>>, set_clock_source(src))

SetSamplingRate ==
    \E rate \in Rates :
        Operate("set_sampling_rate", <<rate>>, set_sampling_rate(rate))

SaveSettingsToHardware ==
    Operate("save_settings_to_hardware", <<>>, save_settings_to_hardware)

\* zero_settings is defined without a self parameter: calling it on an
\* object raises TypeError before its body runs
ZeroSettings ==
    Operate("zero_settings", <<>>, Raises("TypeError"))

SetMixerSource ==
    \E src \in MixerSrcNames, mix_in \in MixerInNames :
        Operate("set_mixer_source", <<src, mix_in>>,
                set_mixer_source(src, mix_in))

SetMixerGain ==
    \E mix_in \in MixerInNames, mix_out \in MixerOutNames, gain \in Gains :
        Operate("set_mixer_gain", <<mix_in, mix_out, gain>>,
                set_mixer_gain(mix_in, mix_out, gain))

RouteMix ==
    \E src \in RouterSrcNames, dest \in RouterDestNames :
        Operate("route_mix", <<src, dest>>, route_mix(src, dest))

SetPostrouteMute ==
    \E bus \in BusNames, mute \in {UNMUTE, MUTE} :
        Operate("set_postroute_mute", <<bus, mute>>,
                set_postroute_mute(bus, mute))

SetPostrouteGain ==
    \E bus \in BusNames, gain \in Gains :
        Operate("set_postroute_gain", <<bus, gain>>,
                set_postroute_gain(bus, gain))

\* the three reads of get_peak_meters, in the order of lines 551-553:
\* <<bm_request, w_value, w_index, length>>
MeterReads ==
    << <<\h03, \h0000, \h3c00, 2 * num_inp_ch>>,
       <<\h03, \h0003, \h3c00, 2 * num_daw_ch>>,
       <<\h03, \h0001, \h3c00, 2 * num_mix_ch>> >>

\* the number of usb_ctrl_recv calls get_peak_meters makes when the
\* ctrl_transfer calls end as in outcomes: it stops at the first that raises
RecvCount(outcomes) ==
    IF UsbCtrlRecv(outcomes[1], MeterReads[1][4]) # "ok" THEN 1
    ELSE IF UsbCtrlRecv(outcomes[2], MeterReads[2][4]) # "ok" THEN 2
    ELSE 3

\* lines 558-566 on three buffers of the given lengths: the number of
\* _twobyte_to_db calls made before the loops end or an index is out of
\* range (a channel needs bytes 2*channel and 2*channel+1)
DecodedCount(lens) ==
    IF lens[1] < 2 * num_inp_ch THEN lens[1] \div 2
    ELSE IF lens[2] < 2 * num_daw_ch THEN num_inp_ch + (lens[2] \div 2)
    ELSE IF lens[3] < 2 * num_mix_ch
        THEN num_inp_ch + num_daw_ch + (lens[3] \div 2)
    ELSE num_inp_ch + num_daw_ch + num_mix_ch

\* get_peak_meters, given how the ctrl_transfer calls end
get_peak_meters(outcomes) ==
    LET n == RecvCount(outcomes)
        failed == UsbCtrlRecv(outcomes[n], MeterReads[n][4]) # "ok"
        decoded == IF failed THEN 0 ELSE DecodedCount(outcomes)
    IN  [name |-> "get_peak_meters", args |-> <<>>, state |-> pc,
         claimed |-> claimed,
         result |-> IF failed THEN "ValueError"
                    ELSE IF decoded < num_inp_ch + num_daw_ch + num_mix_ch
                         THEN "IndexError" ELSE "ok",
         sends |-> 0, recvs |-> n,
         req |-> [k \in 1..n |-> <<\ha1, MeterReads[k][1], MeterReads[k][2],
                                   MeterReads[k][3]>>],
         data |-> [k \in 1..n |-> MeterReads[k][4]],
         xfer |-> SubSeq(outcomes, 1, n),
         decoded |-> decoded]

GetPeakMeters ==
    /\ CanCall
    /\ \E o1 \in RecvOutcomes(MeterReads[1][4]),
          o2 \in RecvOutcomes(MeterReads[2][4]),
          o3 \in RecvOutcomes(MeterReads[3][4]) :
         lastOp' = get_peak_meters(<<o1, o2, o3>>)
    /\ UNCHANGED <<codec, usbVars, plugged, kernelAtStart, objVars, pc, interface,
                   delIdx, initErr, delErr, alive, delRuns, histVars>>

(* ----------------------------------------------------------------------- *)
(* The environment: the device is pulled from the bus                      *)
(* ----------------------------------------------------------------------- *)
Unplug ==
    /\ plugged
    /\ pc \notin {"new"}
    /\ pc = "closed" => alive
    /\ plugged' = FALSE
    /\ UNCHANGED <<codec, usbVars, kernelAtStart, objVars, pc, interface, delIdx,
                   initErr, delErr, alive, delRuns, histVars, opVars>>

\* construction, teardown and the bus
LifecycleNext ==
    \/ InitNoDevice
    \/ InitOpen
    \/ InitActiveFails
    \/ InitSkip
    \/ InitDetach
    \/ InitDetachFails
    \/ InitSetConfiguration
    \/ InitClaim
    \/ InitLoadConfig
    \/ DelByCollector
    \/ DelExplicit
    \/ DelRelease
    \/ DelActiveFails
    \/ DelSkip
    \/ DelAttach
    \/ DelAttachFails
    \/ Unplug

\* the named operations
OperationNext ==
    \/ SetImpedance
    \/ SetPad
    \/ SetClockSource
    \/ SetSamplingRate
    \/ SaveSettingsToHardware
    \/ ZeroSettings
    \/ SetMixerSource
    \/ SetMixerGain
    \/ RouteMix
    \/ SetPostrouteMute
    \/ SetPostrouteGain
    \/ GetPeakMeters

Next == LifecycleNext \/ OperationNext

\* the bindings the sessions that run operations start from: nothing bound,
\* the audio interfaces 0-2
OperationKernelInputs ==
    { [i \in Interfaces |-> i \in S] : S \in {{}, {0, 1, 2}} }

OperationInit == Init /\ kernel \in OperationKernelInputs

\* the whole class, on the bindings of OperationKernelInputs
Spec == OperationInit /\ [][Next]_vars

\* construction and teardown on every binding the OS can start from
LifecycleSpec == Init /\ [][LifecycleNext]_vars

(* ----------------------------------------------------------------------- *)
(* The module-level functions, applied on their own                        *)
(* ----------------------------------------------------------------------- *)
\* how far below -128 dB and above 6 dB the gains tried reach, in dB
MaxGainBelow == 2
MaxGainAbove == 2

\* bounds of the table indices tried
MaxMixerIn == 17
MaxMixerOut == 15

\* float("-inf"), as demo.py passes it: below every finite gain tried
NegInfinity == -1000000

\* gains in units of 1/512 dB
GainInputs ==
    {NegInfinity} \cup
        (((-128 - MaxGainBelow) * 512) .. ((6 + MaxGainAbove) * 512))

\* the bytes a read returns
ByteInputs == 0 .. 255

\* a function and the arguments it is about to be applied to
CodecInputs ==
    [fn : {"_mixer_gain_to_hex", "_postroute_gain_to_hex"},
     x : {<<q>> : q \in GainInputs},
     done : {FALSE}, v : {0}, out : {<<>>}]
    \cup
    [fn : {"_twobyte_to_db"},
     x : ByteInputs \X ByteInputs,
     done : {FALSE}, v : {0}, out : {<<>>}]
    \cup
    [fn : {"element_index"},
     x : (0 .. MaxMixerIn) \X (0 .. MaxMixerOut),
     done : {FALSE}, v : {0}, out : {<<>>}]

CodecInit ==
    /\ SessionInit
    /\ kernel = [i \in Interfaces |-> FALSE]
    /\ codec \in CodecInputs

MixerGainToHexCall ==
    /\ codec.fn = "_mixer_gain_to_hex"
    /\ ~codec.done
    /\ codec' = [codec EXCEPT !.done = TRUE,
                              !.v = MixerGainFixed(codec.x[1]),
                              !.out = mixer_gain_to_hex(codec.x[1])]
    /\ UNCHANGED <<usbVars, plugged, kernelAtStart, objVars, pc, interface,
                   delIdx, initErr, delErr, alive, delRuns, histVars, opVars>>

PostrouteGainToHexCall ==
    /\ codec.fn = "_postroute_gain_to_hex"
    /\ ~codec.done
    /\ codec' = [codec EXCEPT !.done = TRUE,
                              !.v = PostrouteGainFixed(codec.x[1]),
                              !.out = postroute_gain_to_hex(codec.x[1])]
    /\ UNCHANGED <<usbVars, plugged, kernelAtStart, objVars, pc, interface,
                   delIdx, initErr, delErr, alive, delRuns, histVars, opVars>>

TwobyteToDbCall ==
    /\ codec.fn = "_twobyte_to_db"
    /\ ~codec.done
    /\ codec' = [codec EXCEPT !.done = TRUE,
                              !.out = twobyte_to_db(codec.x[1], codec.x[2])]
    /\ UNCHANGED <<usbVars, plugged, kernelAtStart, objVars, pc, interface,
                   delIdx, initErr, delErr, alive, delRuns, histVars, opVars>>

ElementIndexCall ==
    /\ codec.fn = "element_index"
    /\ ~codec.done
    /\ codec' = [codec EXCEPT !.done = TRUE,
                              !.out = <<ElementIndex(codec.x[1], codec.x[2])>>]
    /\ UNCHANGED <<usbVars, plugged, kernelAtStart, objVars, pc, interface,
                   delIdx, initErr, delErr, alive, delRuns, histVars, opVars>>

CodecNext ==
    \/ MixerGainToHexCall
    \/ PostrouteGainToHexCall
    \/ TwobyteToDbCall
    \/ ElementIndexCall

CodecSpec == CodecInit /\ [][CodecNext]_vars

(* ----------------------------------------------------------------------- *)
(* Properties                                                              *)
(* ----------------------------------------------------------------------- *)
\* every interface that had a kernel driver at session start has one now
AllRestored == \A i \in Interfaces : kernelAtStart[i] => kernel[i]

\* __init__ got past the detach loop and then raised a USB error: it was
\* set_configuration(1) or claim_interface that failed
ClaimStepFailed ==
    pc = "failed" /\ initErr = "USBError" /\ interface = NumInterfaces

\* C1: when set_configuration(1) or the claim of interface 0 fails in the
\* constructor, the construction error reaches the caller only after every
\* interface the constructor detached has its kernel driver again.
C1_RolledBackWhenErrorReachesCaller ==
    (ClaimStepFailed /\ plugged) => AllRestored

\* the namespace each symbolic name of an operation is looked up in
NameSpaces ==
    [set_impedance      |-> <<"imp_switch">>,
     set_pad            |-> <<"pad_switch">>,
     set_clock_source   |-> <<"clk_switch">>,
     set_mixer_source   |-> <<"mixer_src", "mixer_in">>,
     set_mixer_gain     |-> <<"mixer_in", "mixer_out">>,
     route_mix          |-> <<"router_src", "router_dest">>,
     set_postroute_mute |-> <<"signal_out">>,
     set_postroute_gain |-> <<"signal_out">>]

\* the last operation took symbolic names and one of them is not in its
\* namespace
LastOpHasInvalidName ==
    /\ lastOp.name \in DOMAIN NameSpaces
    /\ \E k \in DOMAIN NameSpaces[lastOp.name] :
         lastOp.args[k] \notin DOMAIN MappingTable[NameSpaces[lastOp.name][k]]

\* C2: a named operation given a name that is absent from its namespace
\* fails with the invalid-name error (KeyError) and issues no control
\* transfer, also when only the second of two names is invalid.
C2_InvalidNameNoTransfer ==
    LastOpHasInvalidName =>
        /\ lastOp.result = "KeyError"
        /\ lastOp.sends = 0
        /\ lastOp.recvs = 0

\* route_mix("OFF", "UNKNOWN_DEST") was called and raised KeyError
C2_Witness ==
    /\ lastOp.name = "route_mix"
    /\ lastOp.args = <<"OFF", "UNKNOWN_DEST">>
    /\ lastOp.result = "KeyError"

\* C3: a named operation issues a control transfer only while the session
\* is Claimed: constructed, not torn down, interface 0 still claimed.
C3_TransfersOnlyWhileClaimed ==
    (lastOp.sends + lastOp.recvs > 0) =>
        (lastOp.state = "ready" /\ lastOp.claimed)

\* __del__ ran to its end on a session whose construction had succeeded
TornDown ==
    pc = "closed" /\ initErr = "none" /\ device = "dev" /\ delRuns > 0

\* C4: after a teardown without transport error of a successfully
\* constructed session, every interface that had a kernel driver at session
\* start has one again and interface 0 is not claimed.
C4_RestoredAfterTeardown ==
    (TornDown /\ delErr = "none") => (AllRestored /\ ~claimed)

\* the interfaces attach_kernel_driver was called on in this teardown
AttachedInterfaces == {c.intf : c \in attachCalls}

\* interfaces 0-2 were bound at start; teardown attached 0 only, the OS bound
\* 1 and 2 with it, and the loop found them attached
ImplicitReattachSeen ==
    /\ \A i \in {0, 1, 2} : kernelAtStart[i] /\ i \in checked
    /\ 0 \in AttachedInterfaces
    /\ 1 \notin AttachedInterfaces
    /\ 2 \notin AttachedInterfaces

\* a teardown without error that restored interfaces 0-2 through one attach
\* call and at least one more interface through its own
C4_Witness ==
    /\ TornDown /\ delErr = "none"
    /\ ImplicitReattachSeen
    /\ \E i \in {3, 4, 5} : i \in AttachedInterfaces

\* C5: teardown releases interface 0 before any re-attach, and calls
\* attach_kernel_driver only on a recorded interface that the OS reports as
\* not attached at that moment.
C5_AttachOnlyAfterReleaseAndIfDetached ==
    \A c \in attachCalls :
        /\ c.afterRelease
        /\ ~c.wasActive
        /\ \E k \in DOMAIN previously_attached :
             previously_attached[k] = c.intf

\* teardown is over; it attached interface 0 and skipped 1 and 2 because
\* the OS had bound them with it
C5_Witness ==
    /\ pc = "closed"
    /\ released
    /\ ImplicitReattachSeen

\* C6: attach_kernel_driver is called only on interfaces that had a kernel
\* driver at session start and were detached by this session; after a
\* construction that failed while handling interface k, only on interfaces
\* below k.
C6_AttachOnlyWhatWasDetached ==
    \A c \in attachCalls :
        /\ kernelAtStart[c.intf]
        /\ c.intf \in detached
        /\ initErr # "none" => c.intf < interface

\* construction failed at interface 3 (its detach raised, so 3 is recorded
\* but still bound); interface 1 was never bound; teardown asked about 3
\* and re-attached exactly the interfaces 0 and 2
C6_Witness ==
    /\ pc = "closed"
    /\ initErr = "USBError"
    /\ interface = 3
    /\ kernelAtStart[0] /\ ~kernelAtStart[1] /\ kernelAtStart[2]
    /\ kernelAtStart[3]
    /\ 3 \in checked
    /\ AttachedInterfaces = {0, 2}

\* C7: teardown is best-effort: a caller that runs it gets no error from
\* it, and when a USB call of it fails it still goes on to ask the OS about
\* every remaining recorded interface.
C7_TeardownLogsAndContinues ==
    (pc = "closed" /\ delRuns > 0 /\ device = "dev") =>
        /\ alive => delErr = "none"
        /\ \A k \in DOMAIN previously_attached :
             previously_attached[k] \in checked

\* the last operation made exactly one usb_ctrl_send call
LastOpSent == lastOp.sends >= 1 /\ lastOp.name # "get_peak_meters"

\* C8: usb_ctrl_send succeeds exactly when the device reports having
\* consumed len(payload) bytes; otherwise the caller gets the
\* transfer-failed error (ValueError) after exactly one ctrl_transfer call.
C8_SendSucceedsIffAllConsumed ==
    LastOpSent =>
        /\ lastOp.result = "ok" <=> lastOp.xfer[1] = Len(lastOp.data)
        /\ lastOp.result # "ok" =>
             (lastOp.result = "ValueError" /\ lastOp.sends = 1)

\* a send whose transfer was short, reported as ValueError
C8_Witness ==
    /\ LastOpSent
    /\ Len(lastOp.data) = 2
    /\ lastOp.xfer = <<1>>
    /\ lastOp.result = "ValueError"

\* C9: usb_ctrl_recv reports a transfer that returns fewer bytes than asked
\* for as the transfer-failed error, so get_peak_meters never decodes from
\* a buffer shorter than 2 x channel-count bytes.
C9_ShortReadIsTransferFailed ==
    lastOp.name = "get_peak_meters" =>
        /\ (\E k \in DOMAIN lastOp.xfer : lastOp.xfer[k] < lastOp.data[k])
              => lastOp.result = "ValueError"
        /\ lastOp.decoded > 0 =>
              \A k \in DOMAIN lastOp.xfer : lastOp.xfer[k] = lastOp.data[k]

\* the operations that send a setting or the save command
SetSaveOps ==
    DOMAIN NameSpaces \cup {"set_sampling_rate", "save_settings_to_hardware"}

\* C10: a successful set/save operation has issued exactly one send and no
\* receive, a successful get_peak_meters exactly three receives and no
\* send, and a failed operation at most one send.
C10_TransferCounts ==
    /\ (lastOp.name \in SetSaveOps /\ lastOp.result = "ok") =>
          (lastOp.sends = 1 /\ lastOp.recvs = 0)
    /\ (lastOp.name = "get_peak_meters" /\ lastOp.result = "ok") =>
          (lastOp.recvs = 3 /\ lastOp.sends = 0)
    /\ lastOp.result \notin {"ok", "none"} => lastOp.sends <= 1

\* the last operation is a get_peak_meters that got all three buffers in full
C10_Witness ==
    /\ lastOp.name = "get_peak_meters"
    /\ lastOp.result = "ok"
    /\ lastOp.recvs = 3

\* the sampling rates of the spec's enumerated set
SupportedRates == {44100, 48000, 88200, 96000}

RECURSIVE BitOr(_, _)
BitOr(a, b) ==
    IF a = 0 THEN b
    ELSE IF b = 0 THEN a
    ELSE (IF a % 2 = 1 \/ b % 2 = 1 THEN 1 ELSE 0) +
         2 * BitOr(a \div 2, b \div 2)

\* the MatrixElement of the spec: (mixer_in_index << 3) | (mixer_out_index & 7)
MatrixElement(mixer_in_index, mixer_out_index) ==
    BitOr(mixer_in_index * 8, mixer_out_index % 8)

WireTable ==
    [set_impedance |->
        [bRequest |-> \h01, wIndex |-> \h0100, wValue |-> \h0900,
         ns |-> "imp_switch", arg |-> 1, len |-> 2],
     set_pad |->
        [bRequest |-> \h01, wIndex |-> \h0100, wValue |-> \h0b00,
         ns |-> "pad_switch", arg |-> 1, len |-> 2],
     set_clock_source |->
        [bRequest |-> \h01, wIndex |-> \h2800, wValue |-> \h0100,
         ns |-> "", arg |-> 0, len |-> 1],
     set_sampling_rate |->
        [bRequest |-> \h01, wIndex |-> \h2900, wValue |-> \h0100,
         ns |-> "", arg |-> 0, len |-> 4],
     set_mixer_source |->
        [bRequest |-> \h01, wIndex |-> \h3200, wValue |-> \h0600,
         ns |-> "mixer_in", arg |-> 2, len |-> 2],
     route_mix |->
        [bRequest |-> \h01, wIndex |-> \h3300, wValue |-> \h0000,
         ns |-> "router_dest", arg |-> 2, len |-> 2],
     set_postroute_mute |->
        [bRequest |-> \h01, wIndex |-> \h0a00, wValue |-> \h0100,
         ns |-> "signal_out", arg |-> 1, len |-> 2],
     set_postroute_gain |->
        [bRequest |-> \h01, wIndex |-> \h0a00, wValue |-> \h0200,
         ns |-> "signal_out", arg |-> 1, len |-> 2],
     save_settings_to_hardware |->
        [bRequest |-> \h03, wIndex |-> \h3c00, wValue |-> \h005a,
         ns |-> "", arg |-> 0, len |-> 1]]

\* the wValue the wire table gives for the last operation
TableWValue ==
    LET row == WireTable[lastOp.name] IN
    row.wValue + IF row.ns = "" THEN 0
                 ELSE MappingTable[row.ns][lastOp.args[row.arg]]

\* four bytes read back as a little-endian number
RECURSIVE LittleEndianValue(_)
LittleEndianValue(bytes) ==
    IF bytes = <<>> THEN 0
    ELSE (Head(bytes) % 256) + 256 * LittleEndianValue(Tail(bytes))

ZeroSettingsTransfers ==
    Cardinality(DOMAIN MappingTable.mixer_in)
    + Cardinality(DOMAIN MappingTable.mixer_in)
        * Cardinality(DOMAIN MappingTable.mixer_out)
    + Cardinality(DOMAIN MappingTable.router_dest)
    + 2 * Cardinality(DOMAIN MappingTable.signal_out)

\* C17: zero_settings, called on a claimed session, disconnects all mixer
\* inputs and router destinations and sets all gains to 0 dB: it ends
\* without error after issuing all those sends.
C17_ZeroSettingsResets ==
    (lastOp.name = "zero_settings" /\ lastOp.state = "ready") =>
        /\ lastOp.result = "ok"
        /\ lastOp.sends = ZeroSettingsTransfers

\* the last application was of one of the two gain encoders
EncoderApplied ==
    /\ codec.done
    /\ codec.fn \in {"_mixer_gain_to_hex", "_postroute_gain_to_hex"}

\* what the applied encoder gives for a gain q (in 1/512 dB)
Encode(q) ==
    IF codec.fn = "_mixer_gain_to_hex" THEN mixer_gain_to_hex(q)
    ELSE postroute_gain_to_hex(q)

\* clamp(x, lo, hi)
Clamp(x, lo, hi) == IF x < lo THEN lo ELSE IF x > hi THEN hi ELSE x

\* the upper limit of the applied encoder, in 1/512 dB
UpperLimit == IF codec.fn = "_mixer_gain_to_hex" THEN 6 * 512 ELSE 0

\* C15: gain encoding saturates: the matrix-gain encoder gives for a gain
\* outside [-128, 6] (minus infinity included) what it gives for the gain
\* clamped to [-128, 6], the post-route encoder likewise for [-128, 0], and
\* the integer that is encoded lies in the signed 16-bit range.
C15_EncodingSaturates ==
    EncoderApplied =>
        /\ codec.out = Encode(Clamp(codec.x[1], -128 * 512, UpperLimit))
        /\ codec.v \in -32768 .. 32767

\* the matrix-gain encoder was applied to minus infinity and gave the
\* encoding of -128 dB
C15_Witness ==
    /\ codec.done
    /\ codec.fn = "_mixer_gain_to_hex"
    /\ codec.x = <<NegInfinity>>
    /\ codec.v = -32768

\* two emitted bytes read back as a little-endian signed 16-bit integer
DecodeShort(bytes) ==
    LET u == (bytes[1] % 256) + (256 * (bytes[2] % 256))
    IN  IF u >= 32768 THEN u - 65536 ELSE u

\* C16: for a gain g in [-128, 6] the two bytes of the matrix-gain encoder,
\* read back as a little-endian signed 16-bit integer and divided by 256,
\* differ from g by at most 1/256 dB, and give exactly g when g is a
\* multiple of 1/256 dB.
C16_RoundTrip ==
    (/\ codec.done
     /\ codec.fn = "_mixer_gain_to_hex"
     /\ codec.x[1] \in (-128 * 512) .. (6 * 512)) =>
        LET g == codec.x[1]
            d == 2 * DecodeShort(codec.out)
        IN  /\ d - g \in -2 .. 2
            /\ g % 2 = 0 => d = g

\* the matrix-gain encoder was applied to -3 dB - 1/512 dB, which is not a
\* multiple of 1/256 dB
C16_Witness ==
    /\ codec.done
    /\ codec.fn = "_mixer_gain_to_hex"
    /\ codec.x = <<(-3 * 512) - 1>>
    /\ DecodeShort(codec.out) \in {-769, -768}

\* C18: the payload of the two gain encoders is [v mod 256, v div 256] for
\* v = round(256 * clamped gain) mod 65536, and every element of it is an
\* integer in 0..255, for negative gains too.
C18_PayloadIsUnsignedBytes ==
    EncoderApplied =>
        LET v == Round256(Clamp(codec.x[1], -128 * 512, UpperLimit)) % 65536
        IN  /\ codec.out = <<v % 256, v \div 256>>
            /\ \A k \in DOMAIN codec.out : codec.out[k] \in 0 .. 255

\* C19: _twobyte_to_db reassembles v = lowByte + 256 * highByte and returns
\* minus infinity if and only if v = 0; otherwise the logarithm is taken of
\* v / 65536 with v in 1..65535, the largest v being that of (0xff, 0xff).
C19_PeakDecoding ==
    (codec.done /\ codec.fn = "_twobyte_to_db") =>
        LET v == codec.x[1] + (256 * codec.x[2]) IN
        /\ codec.out[1] = 1 <=> v = 0
        /\ codec.out[1] \in {0, 1}
        /\ codec.out[1] = 0 =>
              /\ codec.out[2] = v
              /\ codec.out[2] \in 1 .. 65535
              /\ codec.out[3] = 65536
              /\ codec.out[2] = 65535 <=> codec.x = <<\hff, \hff>>

\* _twobyte_to_db was applied to (0, 0) and returned minus infinity
C19_Witness ==
    /\ codec.done
    /\ codec.fn = "_twobyte_to_db"
    /\ codec.x = <<0, 0>>
    /\ codec.out[1] = 1

\* C20: the element index is injective on mixer_in >= 0 and mixer_out in
\* 0..7: no other such pair has the element index (and so the wValue) of
\* the pair applied; for a mixer_out of 8 or more the index is that of
\* mixer_out mod 8.
C20_ElementIndexInjective ==
    (codec.done /\ codec.fn = "element_index") =>
        /\ codec.x[2] <= 7 =>
              \A i \in 0 .. MaxMixerIn, o \in 0 .. 7 :
                  (\h0100 + ElementIndex(i, o) = \h0100 + codec.out[1])
                      => <<i, o>> = codec.x
        /\ codec.x[2] >= 8 =>
              codec.out[1] = ElementIndex(codec.x[1], codec.x[2] % 8)

\* the element index of (1, 9) was computed and is that of (1, 1)
C20_Witness ==
    /\ codec.done
    /\ codec.fn = "element_index"
    /\ codec.x = <<1, 9>>
    /\ codec.out = <<9>>

====
